---- MODULE Spec2Model ----
(***************************************************************************)
(* Distributable-amount calculator (app.py, a Streamlit script) and the    *)
(* reference calculation calculate_distributable_amount (test.py).         *)
(*                                                                         *)
(* The calculation is a pure function of 22 inputs.  The state is the form *)
(* (the widgets' values and the calculation mode), the record the          *)
(* calculate button stores in st.session_state.results, and the value      *)
(* returned by the last call of the reference calculation.                 *)
(*                                                                         *)
(* Amounts are Python ints (unbounded); every amount of the model is far   *)
(* below 2^53, where goodwill / 2 (a float division) is exact.             *)
(***************************************************************************)
EXTENDS Integers, FiniteSets, Sequences, TLC

VARIABLES
    calculation_mode,  \* st.sidebar.radio: "basic" | "detail"
    inputs,            \* the 22 values entered in the form / passed as arguments
    results,           \* st.session_state.results
    pressed,           \* the calculate button has been pressed in this session
    last,              \* the script's 22 variables at the most recent press
    ref_called,        \* calculate_distributable_amount has been called
    ref_args,          \* its arguments at the most recent call
    ref_ret,           \* its return value at the most recent call
    last_mode,         \* calculation_mode at the most recent press
    previous,          \* the results record the most recent press replaced
    edits,             \* amounts entered in the form since the session began
    goodwill_arg,      \* a goodwill of any magnitude, as 2^exp + off
    goodwill_half,     \* math.floor(goodwill / 2) for it, as 2^exp + off
    frames             \* the local variables of the calculations under way

session_vars ==
    <<calculation_mode, inputs, results, pressed, last, last_mode, previous,
      edits>>
ref_vars == <<ref_called, ref_args, ref_ret>>
wide_vars == <<goodwill_arg, goodwill_half>>

vars == <<session_vars, ref_vars, wide_vars, frames>>

----------------------------------------------------------------------------
(* Bounds *)

\* amounts entered in a form field range over 0..MaxAmt (signed fields over
\* -MaxAmt..MaxAmt), next to the amounts of the repository's own test cases
MaxAmt == 2

----------------------------------------------------------------------------
(* Python arithmetic *)

\* abs(x)
Abs(x) == IF x < 0 THEN -x ELSE x

\* x / 2 on an int: the float quotient, exact while |x| < 2^53 (the amounts
\* of the form; WideTrueDiv2 below covers the others); it is whole + half/2
\* with half in {0, 1}
TrueDiv2(x) == [whole |-> x \div 2, half |-> x % 2]

\* math.floor(q): the largest integer <= q
MathFloor(q) == q.whole

\* the significand of a Python float (an IEEE 754 double) has 53 bits
MantissaBits == 53

RECURSIVE Pow2(_)
Pow2(n) == IF n = 0 THEN 1 ELSE 2 * Pow2(n - 1)

\* An int of any magnitude is written g = 2^g.exp + g.off, with
\* 0 <= g.off < 2^g.exp.  g / 2 is the float nearest to the exact quotient
\* 2^(g.exp - 1) + g.off / 2, ties going to the even significand.  Counted
\* in halves the quotient is 2^g.exp + g.off, and the floats of its binade
\* are the multiples of 2^(g.exp - (MantissaBits - 1)) halves: every half
\* while g.exp < MantissaBits, fewer from there on.  WideTrueDiv2 gives the
\* float as the number of halves it is above 2^g.exp.
WideTrueDiv2(g) ==
    IF g.exp < MantissaBits
    THEN g.off
    ELSE LET ulp == Pow2(g.exp - (MantissaBits - 1))
             below == (g.off \div ulp) * ulp
             rest == g.off - below
         IN  IF 2 * rest < ulp THEN below
             ELSE IF 2 * rest > ulp THEN below + ulp
             ELSE IF (below \div ulp) % 2 = 0 THEN below ELSE below + ulp

\* math.floor(goodwill / 2) for g = 2^g.exp + g.off with g.exp >= 1
WideFloorHalf(g) == [exp |-> g.exp - 1, off |-> WideTrueDiv2(g) \div 2]

----------------------------------------------------------------------------
(* The form *)

Modes == {"basic", "detail"}

\* every number_input has value=0, the checkbox is unchecked
Default ==
    [capital_stock |-> 0, capital_reserve |-> 0, other_capital_surplus |-> 0,
     earned_reserve |-> 0, other_retained_earnings |-> 0, treasury_stock |-> 0,
     goodwill |-> 0, deferred_assets |-> 0,
     securities_valuation |-> 0, land_revaluation |-> 0,
     disposal_treasury_stock |-> 0, disposal_consideration |-> 0,
     canceled_treasury_stock |-> 0,
     capital_reduction |-> 0, reserve_reduction |-> 0, surplus_to_capital |-> 0,
     dividend_amount |-> 0, dividend_reserve |-> 0,
     interim_settlement |-> FALSE,
     interim_profit |-> 0, interim_loss |-> 0, interim_treasury_disposal |-> 0]

\* variant: the widgets' values taken as they are, rendered or not
ScriptVars_widget_values(mode, w) == w

\* the values of the script's variables when the button is evaluated: the
\* detail-mode widgets exist only in detail mode, the three interim amounts
\* only when the checkbox is checked; otherwise the variables are set to 0
ScriptVars(mode, w) ==
    IF mode = "detail"
    THEN IF w.interim_settlement
         THEN w
         ELSE [w EXCEPT !.interim_profit = 0, !.interim_loss = 0,
                        !.interim_treasury_disposal = 0]
    ELSE [w EXCEPT !.disposal_treasury_stock = 0, !.disposal_consideration = 0,
                   !.canceled_treasury_stock = 0,
                   !.capital_reduction = 0, !.reserve_reduction = 0,
                   !.surplus_to_capital = 0,
                   !.dividend_amount = 0, !.dividend_reserve = 0,
                   !.interim_settlement = FALSE,
                   !.interim_profit = 0, !.interim_loss = 0,
                   !.interim_treasury_disposal = 0]

----------------------------------------------------------------------------
(* app.py: the calculation run by the calculate button, on the script's    *)
(* variables v                                                             *)

\* variant: the capital reserve counted as surplus
surplus_amount_with_capital_reserve(v) ==
    v.capital_reserve + v.other_capital_surplus + v.other_retained_earnings

surplus_amount(v) == v.other_capital_surplus + v.other_retained_earnings

treasury_stock_adjustments(v) ==
    v.disposal_consideration - v.disposal_treasury_stock
        - v.canceled_treasury_stock

\* variant: the transfer from surplus to capital added instead of deducted
capital_reserve_adjustments_transfer_added(v) ==
    v.capital_reduction + v.reserve_reduction + v.surplus_to_capital

capital_reserve_adjustments(v) ==
    v.capital_reduction + v.reserve_reduction - v.surplus_to_capital

dividend_adjustments(v) == -(v.dividend_amount + v.dividend_reserve)

\* variant: the book value after disposals, as test.py computes it
treasury_stock_abs_after_disposal(v) ==
    Abs(v.treasury_stock) - v.disposal_treasury_stock

treasury_stock_abs(v) == Abs(v.treasury_stock)

\* variant: the disposal consideration not taken back
additional_treasury_adjustments_dropped(v) == 0

additional_treasury_adjustments(v) == -v.disposal_consideration

\* variant: the interim amounts used without consulting the checkbox
interim_settlement_adjustments_unguarded(v) ==
    v.interim_profit - v.interim_loss + v.interim_treasury_disposal

interim_settlement_adjustments(v) ==
    IF v.interim_settlement
    THEN v.interim_profit - v.interim_loss + v.interim_treasury_disposal
    ELSE 0

goodwill_adjustment(v) == MathFloor(TrueDiv2(v.goodwill))

deferred_asset_adjustment(v) == v.deferred_assets

goodwill_deferred_adjustment(v) ==
    goodwill_adjustment(v) + deferred_asset_adjustment(v)

capital_reserve_total(v) ==
    v.capital_stock + v.capital_reserve + v.earned_reserve

\* variant: the third branch missing
goodwill_deferred_deduction_three_branches(v) ==
    IF goodwill_deferred_adjustment(v) <= capital_reserve_total(v)
    THEN 0
    ELSE IF goodwill_deferred_adjustment(v)
                <= capital_reserve_total(v) + v.other_capital_surplus
    THEN goodwill_deferred_adjustment(v) - capital_reserve_total(v)
    ELSE v.other_capital_surplus + deferred_asset_adjustment(v)

\* variant: the first threshold includes the other capital surplus
goodwill_deferred_deduction_wide_first(v) ==
    IF goodwill_deferred_adjustment(v)
           <= capital_reserve_total(v) + v.other_capital_surplus
    THEN 0
    ELSE IF goodwill_adjustment(v)
                <= capital_reserve_total(v) + v.other_capital_surplus
    THEN goodwill_deferred_adjustment(v) - capital_reserve_total(v)
    ELSE v.other_capital_surplus + deferred_asset_adjustment(v)

\* variant: the excess over the capital and reserves deducted in the last
\* branch too, without the cap
goodwill_deferred_deduction_uncapped(v) ==
    IF goodwill_deferred_adjustment(v) <= capital_reserve_total(v)
    THEN 0
    ELSE goodwill_deferred_adjustment(v) - capital_reserve_total(v)

\* variant: the third branch deducts the excess of half the goodwill alone
goodwill_deferred_deduction_third_differs(v) ==
    IF goodwill_deferred_adjustment(v) <= capital_reserve_total(v)
    THEN 0
    ELSE IF goodwill_deferred_adjustment(v)
                <= capital_reserve_total(v) + v.other_capital_surplus
    THEN goodwill_deferred_adjustment(v) - capital_reserve_total(v)
    ELSE IF goodwill_adjustment(v)
                <= capital_reserve_total(v) + v.other_capital_surplus
    THEN goodwill_adjustment(v) - capital_reserve_total(v)
    ELSE v.other_capital_surplus + deferred_asset_adjustment(v)

\* variant: the last branch deducts the whole adjustment
goodwill_deferred_deduction_whole_last(v) ==
    IF goodwill_deferred_adjustment(v) <= capital_reserve_total(v)
    THEN 0
    ELSE IF goodwill_deferred_adjustment(v)
                <= capital_reserve_total(v) + v.other_capital_surplus
    THEN goodwill_deferred_adjustment(v) - capital_reserve_total(v)
    ELSE IF goodwill_adjustment(v)
                <= capital_reserve_total(v) + v.other_capital_surplus
    THEN goodwill_deferred_adjustment(v) - capital_reserve_total(v)
    ELSE goodwill_deferred_adjustment(v)

goodwill_deferred_deduction(v) ==
    IF goodwill_deferred_adjustment(v) <= capital_reserve_total(v)
    THEN 0
    ELSE IF goodwill_deferred_adjustment(v)
                <= capital_reserve_total(v) + v.other_capital_surplus
    THEN goodwill_deferred_adjustment(v) - capital_reserve_total(v)
    ELSE IF goodwill_adjustment(v)
                <= capital_reserve_total(v) + v.other_capital_surplus
    THEN goodwill_deferred_adjustment(v) - capital_reserve_total(v)
    ELSE v.other_capital_surplus + deferred_asset_adjustment(v)

\* variant: the securities valuation difference added whatever its sign
valuation_adjustments_symmetric(v) ==
    v.securities_valuation
    + (IF v.land_revaluation < 0 THEN -Abs(v.land_revaluation) ELSE 0)

valuation_adjustments(v) ==
    (IF v.securities_valuation < 0 THEN -Abs(v.securities_valuation) ELSE 0)
    + (IF v.land_revaluation < 0 THEN -Abs(v.land_revaluation) ELSE 0)

min_net_assets == 3000000

\* variant: treasury stock left out of the net assets
net_assets_without_treasury(v) ==
    v.capital_stock + v.capital_reserve + v.earned_reserve
        + v.other_capital_surplus + v.other_retained_earnings

net_assets(v) ==
    v.capital_stock + v.capital_reserve + v.earned_reserve
        + v.other_capital_surplus + v.other_retained_earnings
        + v.treasury_stock

\* variant: the difference taken the other way round
net_assets_adjustment_sign_slip(v) ==
    IF net_assets(v) < min_net_assets
    THEN net_assets(v) - min_net_assets
    ELSE 0

net_assets_adjustment(v) ==
    IF net_assets(v) < min_net_assets
    THEN min_net_assets - net_assets(v)
    ELSE 0

\* variant: the disposal consideration adjustment subtracted
distributable_amount_sign_slip(v) ==
    surplus_amount(v)
    + treasury_stock_adjustments(v)
    + capital_reserve_adjustments(v)
    + dividend_adjustments(v)
    - treasury_stock_abs(v)
    - additional_treasury_adjustments(v)
    + interim_settlement_adjustments(v)
    - goodwill_deferred_deduction(v)
    + valuation_adjustments(v)
    - net_assets_adjustment(v)

\* variant: the total carried over from the record of the earlier
\* calculation
distributable_amount_carried(v) ==
    results.distributable_amount
    + surplus_amount(v)
    + treasury_stock_adjustments(v)
    + capital_reserve_adjustments(v)
    + dividend_adjustments(v)
    - treasury_stock_abs(v)
    + additional_treasury_adjustments(v)
    + interim_settlement_adjustments(v)
    - goodwill_deferred_deduction(v)
    + valuation_adjustments(v)
    - net_assets_adjustment(v)

distributable_amount(v) ==
    surplus_amount(v)
    + treasury_stock_adjustments(v)
    + capital_reserve_adjustments(v)
    + dividend_adjustments(v)
    - treasury_stock_abs(v)
    + additional_treasury_adjustments(v)
    + interim_settlement_adjustments(v)
    - goodwill_deferred_deduction(v)
    + valuation_adjustments(v)
    - net_assets_adjustment(v)

\* variant: the record stored without its net_assets_adjustment
StoredResults_missing_key(v) ==
    [surplus_amount |-> surplus_amount(v),
     treasury_stock_adjustments |-> treasury_stock_adjustments(v),
     capital_reserve_adjustments |-> capital_reserve_adjustments(v),
     dividend_adjustments |-> dividend_adjustments(v),
     treasury_stock_abs |-> treasury_stock_abs(v),
     additional_treasury_adjustments |-> additional_treasury_adjustments(v),
     interim_settlement_adjustments |-> interim_settlement_adjustments(v),
     goodwill_deferred_deduction |-> goodwill_deferred_deduction(v),
     valuation_adjustments |-> valuation_adjustments(v),
     distributable_amount |-> distributable_amount(v),
     capital_stock |-> v.capital_stock,
     capital_reserve |-> v.capital_reserve,
     other_capital_surplus |-> v.other_capital_surplus,
     earned_reserve |-> v.earned_reserve,
     other_retained_earnings |-> v.other_retained_earnings,
     treasury_stock |-> v.treasury_stock,
     goodwill |-> v.goodwill,
     deferred_assets |-> v.deferred_assets,
     securities_valuation |-> v.securities_valuation,
     land_revaluation |-> v.land_revaluation]

\* the record assigned to st.session_state.results
StoredResults(v) ==
    [surplus_amount |-> surplus_amount(v),
     treasury_stock_adjustments |-> treasury_stock_adjustments(v),
     capital_reserve_adjustments |-> capital_reserve_adjustments(v),
     dividend_adjustments |-> dividend_adjustments(v),
     treasury_stock_abs |-> treasury_stock_abs(v),
     additional_treasury_adjustments |-> additional_treasury_adjustments(v),
     interim_settlement_adjustments |-> interim_settlement_adjustments(v),
     goodwill_deferred_deduction |-> goodwill_deferred_deduction(v),
     valuation_adjustments |-> valuation_adjustments(v),
     net_assets_adjustment |-> net_assets_adjustment(v),
     distributable_amount |-> distributable_amount(v),
     capital_stock |-> v.capital_stock,
     capital_reserve |-> v.capital_reserve,
     other_capital_surplus |-> v.other_capital_surplus,
     earned_reserve |-> v.earned_reserve,
     other_retained_earnings |-> v.other_retained_earnings,
     treasury_stock |-> v.treasury_stock,
     goodwill |-> v.goodwill,
     deferred_assets |-> v.deferred_assets,
     securities_valuation |-> v.securities_valuation,
     land_revaluation |-> v.land_revaluation]

\* st.session_state.results before the first press ("adjustments" is an
\* empty dict)
InitialResults ==
    [retained_earnings |-> 0, adjustments |-> <<>>, distributable_amount |-> 0]

----------------------------------------------------------------------------
(* test.py: calculate_distributable_amount, on its arguments a             *)

cda_surplus_amount(a) == a.other_capital_surplus + a.other_retained_earnings

cda_treasury_stock_adjustments(a) ==
    a.disposal_consideration - a.disposal_treasury_stock
        - a.canceled_treasury_stock

cda_capital_reserve_adjustments(a) ==
    a.capital_reduction + a.reserve_reduction - a.surplus_to_capital

cda_dividend_adjustments(a) == -(a.dividend_amount + a.dividend_reserve)

\* variant: the book value before disposals, as app.py computes it
cda_treasury_stock_abs_plain(a) == Abs(a.treasury_stock)

cda_treasury_stock_abs(a) == Abs(a.treasury_stock) - a.disposal_treasury_stock

cda_additional_treasury_adjustments(a) == -a.disposal_consideration

cda_interim_settlement_adjustments(a) ==
    IF a.interim_settlement
    THEN a.interim_profit - a.interim_loss + a.interim_treasury_disposal
    ELSE 0

cda_goodwill_adjustment(a) == MathFloor(TrueDiv2(a.goodwill))

cda_goodwill_deferred_adjustment(a) ==
    cda_goodwill_adjustment(a) + a.deferred_assets

cda_capital_reserve_total(a) ==
    a.capital_stock + a.capital_reserve + a.earned_reserve

cda_goodwill_deferred_deduction(a) ==
    IF cda_goodwill_deferred_adjustment(a) <= cda_capital_reserve_total(a)
    THEN 0
    ELSE IF cda_goodwill_deferred_adjustment(a)
                <= cda_capital_reserve_total(a) + a.other_capital_surplus
    THEN cda_goodwill_deferred_adjustment(a) - cda_capital_reserve_total(a)
    ELSE IF cda_goodwill_adjustment(a)
                <= cda_capital_reserve_total(a) + a.other_capital_surplus
    THEN cda_goodwill_deferred_adjustment(a) - cda_capital_reserve_total(a)
    ELSE a.other_capital_surplus + a.deferred_assets

cda_valuation_adjustments(a) ==
    (IF a.securities_valuation < 0 THEN -Abs(a.securities_valuation) ELSE 0)
    + (IF a.land_revaluation < 0 THEN -Abs(a.land_revaluation) ELSE 0)

cda_net_assets(a) ==
    a.capital_stock + a.capital_reserve + a.earned_reserve
        + a.other_capital_surplus + a.other_retained_earnings
        + a.treasury_stock

cda_net_assets_adjustment(a) ==
    IF cda_net_assets(a) < 3000000
    THEN 3000000 - cda_net_assets(a)
    ELSE 0

cda_distributable_amount(a) ==
    cda_surplus_amount(a)
    + cda_treasury_stock_adjustments(a)
    + cda_capital_reserve_adjustments(a)
    + cda_dividend_adjustments(a)
    - cda_treasury_stock_abs(a)
    + cda_additional_treasury_adjustments(a)
    + cda_interim_settlement_adjustments(a)
    - cda_goodwill_deferred_deduction(a)
    + cda_valuation_adjustments(a)
    - cda_net_assets_adjustment(a)

\* the dict calculate_distributable_amount returns
calculate_distributable_amount(a) ==
    [surplus_amount |-> cda_surplus_amount(a),
     treasury_stock_adjustments |-> cda_treasury_stock_adjustments(a),
     capital_reserve_adjustments |-> cda_capital_reserve_adjustments(a),
     dividend_adjustments |-> cda_dividend_adjustments(a),
     treasury_stock_abs |-> cda_treasury_stock_abs(a),
     additional_treasury_adjustments |-> cda_additional_treasury_adjustments(a),
     interim_settlement_adjustments |-> cda_interim_settlement_adjustments(a),
     goodwill_deferred_deduction |-> cda_goodwill_deferred_deduction(a),
     valuation_adjustments |-> cda_valuation_adjustments(a),
     net_assets_adjustment |-> cda_net_assets_adjustment(a),
     distributable_amount |-> cda_distributable_amount(a)]

\* the eleven keys both calculations produce
ResultKeys ==
    {"surplus_amount", "treasury_stock_adjustments",
     "capital_reserve_adjustments", "dividend_adjustments",
     "treasury_stock_abs", "additional_treasury_adjustments",
     "interim_settlement_adjustments", "goodwill_deferred_deduction",
     "valuation_adjustments", "net_assets_adjustment",
     "distributable_amount"}

----------------------------------------------------------------------------
(* The inputs of the model *)

\* a number_input with min_value=0
Amount == 0 .. MaxAmt

\* a number_input with min_value=-1000000000 (and no max_value)
Signed == (-MaxAmt) .. MaxAmt

\* amounts at the minimum-net-assets threshold
NearFloor == {0, min_net_assets - 1, min_net_assets, min_net_assets + 1}

\* the goodwill ladder: capital and reserves, other capital surplus,
\* goodwill (halved by the ladder) and deferred assets
LadderInputs ==
    {[Default EXCEPT !.capital_stock = cs, !.capital_reserve = cr,
                     !.earned_reserve = er, !.other_capital_surplus = ocs,
                     !.goodwill = g, !.deferred_assets = d] :
        cs \in Amount, cr \in 0 .. 1, er \in 0 .. 1, ocs \in Amount,
        g \in 0 .. (2 * MaxAmt + 3), d \in Amount}

\* the net-assets floor
NetAssetsInputs ==
    {[Default EXCEPT !.capital_stock = cs, !.capital_reserve = cr,
                     !.earned_reserve = er, !.other_capital_surplus = ocs,
                     !.other_retained_earnings = ore, !.treasury_stock = ts] :
        cs \in NearFloor, cr \in 0 .. 1, er \in 0 .. 1, ocs \in 0 .. 1,
        ore \in Signed, ts \in Signed}

\* treasury stock, its disposal and cancellation
TreasuryInputs ==
    {[Default EXCEPT !.capital_stock = cs, !.treasury_stock = ts,
                     !.disposal_treasury_stock = dts,
                     !.disposal_consideration = dc,
                     !.canceled_treasury_stock = cts] :
        cs \in {0, min_net_assets}, ts \in Signed, dts \in Amount,
        dc \in Amount, cts \in Amount}

\* capital and reserve changes, dividends
CapitalDividendInputs ==
    {[Default EXCEPT !.capital_reduction = cred, !.reserve_reduction = rred,
                     !.surplus_to_capital = stc, !.dividend_amount = da,
                     !.dividend_reserve = dr] :
        cred \in Amount, rred \in Amount, stc \in Amount, da \in Amount,
        dr \in Amount}

\* the interim settlement
InterimInputs ==
    {[Default EXCEPT !.other_retained_earnings = ore,
                     !.interim_settlement = f, !.interim_profit = ip,
                     !.interim_loss = il, !.interim_treasury_disposal = itd] :
        ore \in 0 .. 1, f \in BOOLEAN, ip \in Amount, il \in Amount,
        itd \in Amount}

\* the valuation differences
ValuationInputs ==
    {[Default EXCEPT !.capital_stock = cs, !.other_retained_earnings = ore,
                     !.securities_valuation = sv, !.land_revaluation = lr] :
        cs \in {0, min_net_assets}, ore \in Signed, sv \in Signed,
        lr \in Signed}

\* the arguments of the calls test.py makes (test_maximum_values, whose
\* result exceeds 2^31, is left out)
TestInputs ==
    {[Default EXCEPT !.capital_stock = 10000000, !.capital_reserve = 5000000,
                     !.other_capital_surplus = 3000000,
                     !.earned_reserve = 2000000,
                     !.other_retained_earnings = 20000000,
                     !.treasury_stock = -2000000],
     [Default EXCEPT !.capital_stock = 10000000, !.capital_reserve = 5000000,
                     !.earned_reserve = 2000000,
                     !.other_capital_surplus = 3000000,
                     !.other_retained_earnings = 20000000,
                     !.goodwill = 20000000, !.deferred_assets = 5000000],
     [Default EXCEPT !.capital_stock = 10000000, !.capital_reserve = 5000000,
                     !.earned_reserve = 2000000,
                     !.other_capital_surplus = 3000000,
                     !.other_retained_earnings = 20000000,
                     !.goodwill = 30000000, !.deferred_assets = 5000000],
     [Default EXCEPT !.capital_stock = 10000000, !.capital_reserve = 5000000,
                     !.earned_reserve = 2000000,
                     !.other_capital_surplus = 3000000,
                     !.other_retained_earnings = 20000000,
                     !.goodwill = 30000000, !.deferred_assets = 10000000],
     [Default EXCEPT !.capital_stock = 10000000, !.capital_reserve = 5000000,
                     !.earned_reserve = 2000000,
                     !.other_capital_surplus = 3000000,
                     !.other_retained_earnings = 20000000,
                     !.goodwill = 50000000, !.deferred_assets = 10000000],
     [Default EXCEPT !.capital_stock = 10000000,
                     !.other_capital_surplus = 3000000,
                     !.other_retained_earnings = 20000000,
                     !.securities_valuation = -2000000,
                     !.land_revaluation = -3000000],
     [Default EXCEPT !.capital_stock = 1000000,
                     !.other_capital_surplus = 1000000,
                     !.other_retained_earnings = -500000,
                     !.treasury_stock = -200000],
     [Default EXCEPT !.capital_stock = 2000000,
                     !.other_capital_surplus = 1000000,
                     !.other_retained_earnings = 1000000],
     [Default EXCEPT !.other_capital_surplus = 3000000,
                     !.other_retained_earnings = 10000000,
                     !.treasury_stock = -5000000,
                     !.disposal_treasury_stock = 2000000,
                     !.disposal_consideration = 2500000,
                     !.canceled_treasury_stock = 1000000],
     [Default EXCEPT !.other_capital_surplus = 3000000,
                     !.other_retained_earnings = 10000000,
                     !.capital_reduction = 5000000,
                     !.reserve_reduction = 3000000,
                     !.surplus_to_capital = 2000000],
     [Default EXCEPT !.other_capital_surplus = 3000000,
                     !.other_retained_earnings = 10000000,
                     !.dividend_amount = 2000000, !.dividend_reserve = 200000],
     [Default EXCEPT !.other_capital_surplus = 3000000,
                     !.other_retained_earnings = 10000000],
     [Default EXCEPT !.other_capital_surplus = 3000000,
                     !.other_retained_earnings = 10000000,
                     !.interim_settlement = TRUE, !.interim_profit = 5000000,
                     !.interim_treasury_disposal = 1000000],
     [Default EXCEPT !.other_capital_surplus = 3000000,
                     !.other_retained_earnings = 10000000,
                     !.interim_settlement = TRUE, !.interim_loss = 2000000,
                     !.interim_treasury_disposal = 1000000],
     [Default EXCEPT !.capital_stock = 10000000, !.capital_reserve = 5000000,
                     !.earned_reserve = 2000000,
                     !.other_capital_surplus = 3000000,
                     !.other_retained_earnings = 20000000,
                     !.treasury_stock = -3000000,
                     !.goodwill = 10000000, !.deferred_assets = 2000000,
                     !.securities_valuation = -1000000,
                     !.disposal_treasury_stock = 1000000,
                     !.disposal_consideration = 1200000,
                     !.canceled_treasury_stock = 500000,
                     !.capital_reduction = 2000000,
                     !.reserve_reduction = 1000000,
                     !.surplus_to_capital = 500000,
                     !.dividend_amount = 1500000, !.dividend_reserve = 150000,
                     !.interim_settlement = TRUE, !.interim_profit = 3000000,
                     !.interim_loss = 500000,
                     !.interim_treasury_disposal = 800000],
     [Default EXCEPT !.capital_stock = 3000000],
     [Default EXCEPT !.capital_stock = 5000000, !.capital_reserve = 3000000,
                     !.earned_reserve = 2000000,
                     !.other_capital_surplus = 3000000,
                     !.other_retained_earnings = 10000000,
                     !.goodwill = 20000000],
     Default,
     [Default EXCEPT !.capital_stock = 10000000,
                     !.other_capital_surplus = 5000000,
                     !.other_retained_earnings = -8000000]}

InputSpace ==
    LadderInputs \cup NetAssetsInputs \cup TreasuryInputs
    \cup CapitalDividendInputs \cup InterimInputs \cup ValuationInputs
    \cup TestInputs

----------------------------------------------------------------------------
(* math.floor(goodwill / 2) beyond the amounts of the form *)

\* the offsets of the wide goodwill amounts range over 0..MaxOff
MaxOff == 7

\* goodwill amounts 2^exp + off around and beyond 2^MantissaBits
WideGoodwill ==
    {[exp |-> e, off |-> r] : e \in 4 .. (MantissaBits + 3), r \in 0 .. MaxOff}

NotHalved == [done |-> FALSE, exp |-> 0, off |-> 0]

\* no wide goodwill is under consideration
WideIdle ==
    /\ goodwill_arg = [exp |-> 1, off |-> 0]
    /\ goodwill_half = NotHalved

\* the session when the script has run for the first time: the radio on its
\* first option, every widget at its default, the initial results record
SessionStart ==
    /\ calculation_mode = "basic"
    /\ inputs = Default
    /\ results = InitialResults
    /\ pressed = FALSE
    /\ last = Default
    /\ last_mode = "basic"
    /\ previous = InitialResults
    /\ edits = 0

\* calculate_distributable_amount has not been called
RefIdle ==
    /\ ref_called = FALSE
    /\ ref_args = Default
    /\ ref_ret = <<>>

----------------------------------------------------------------------------
(* The state machine *)

\* a session whose form holds some input of the input space; nothing has
\* been calculated yet
Init ==
    /\ calculation_mode \in Modes
    /\ inputs \in InputSpace
    /\ results = InitialResults
    /\ pressed = FALSE
    /\ last = Default
    /\ last_mode = "basic"
    /\ previous = InitialResults
    /\ edits = 0
    /\ RefIdle
    /\ WideIdle
    /\ frames = <<>>

\* a script run with the calculate button pressed
PressCalc ==
    /\ pressed' = TRUE
    /\ last' = ScriptVars(calculation_mode, inputs)
    /\ results' = StoredResults(ScriptVars(calculation_mode, inputs))
    /\ last_mode' = calculation_mode
    /\ previous' = results
    /\ UNCHANGED <<calculation_mode, inputs, edits, ref_vars, wide_vars, frames>>

\* a call calculate_distributable_amount(**inputs)
CallReference ==
    /\ ref_called' = TRUE
    /\ ref_args' = inputs
    /\ ref_ret' = calculate_distributable_amount(inputs)
    /\ UNCHANGED <<session_vars, wide_vars, frames>>

Next == PressCalc \/ CallReference

Spec == Init /\ [][Next]_vars

----------------------------------------------------------------------------
(* A session of the app: the user edits amounts, switches the mode, checks *)
(* the interim-settlement box and presses the button, in any order        *)

\* at most MaxEdits amounts are entered in a session
MaxEdits == 2

\* the number inputs rendered in both modes
BaseFields ==
    {"capital_stock", "capital_reserve", "other_capital_surplus",
     "earned_reserve", "other_retained_earnings", "treasury_stock",
     "goodwill", "deferred_assets", "securities_valuation",
     "land_revaluation"}

\* the number inputs rendered in detail mode only
DetailFields ==
    {"disposal_treasury_stock", "disposal_consideration",
     "canceled_treasury_stock", "capital_reduction", "reserve_reduction",
     "surplus_to_capital", "dividend_amount", "dividend_reserve"}

\* the number inputs rendered in detail mode when the checkbox is checked
InterimFields == {"interim_profit", "interim_loss", "interim_treasury_disposal"}

\* the number inputs on the page in mode m with widget values w
Rendered(m, w) ==
    BaseFields
        \cup (IF m = "detail" THEN DetailFields ELSE {})
        \cup (IF m = "detail" /\ w.interim_settlement
              THEN InterimFields ELSE {})

\* the amounts entered in field f: within the widget's min_value
Entered(f) ==
    CASE f = "capital_stock" -> {0, min_net_assets}
      [] f = "goodwill" -> {0, 2}
      [] f \in {"treasury_stock", "securities_valuation"} -> {-1, 0}
      [] OTHER -> {0, 1}

\* the widget values with the detail-mode widgets back at their defaults
DetailWidgetsReset(w) ==
    [f \in DOMAIN w |->
        IF f \in BaseFields THEN w[f] ELSE Default[f]]

\* the widget values with the three interim amounts back at their defaults
InterimWidgetsReset(w) ==
    [f \in DOMAIN w |->
        IF f \in InterimFields THEN Default[f] ELSE w[f]]

SessionInit ==
    /\ SessionStart
    /\ RefIdle
    /\ WideIdle
    /\ frames = <<>>

\* the user enters amount x in the rendered number input f; the script
\* reruns with the button not pressed
SetAmount(f, x) ==
    /\ edits < MaxEdits
    /\ f \in Rendered(calculation_mode, inputs)
    /\ x \in Entered(f)
    /\ x # inputs[f]
    /\ inputs' = [inputs EXCEPT ![f] = x]
    /\ edits' = edits + 1
    /\ UNCHANGED <<calculation_mode, results, pressed, last, last_mode,
                   previous, ref_vars, wide_vars, frames>>

\* the user checks or unchecks the interim-settlement box; what the three
\* amount widgets hold once they are no longer rendered is the framework's
\* business: kept or back at the default
ToggleInterim ==
    /\ calculation_mode = "detail"
    /\ \/ /\ ~inputs.interim_settlement
          /\ inputs' = [inputs EXCEPT !.interim_settlement = TRUE]
       \/ /\ inputs.interim_settlement
          /\ \E w \in {inputs, InterimWidgetsReset(inputs)} :
                inputs' = [w EXCEPT !.interim_settlement = FALSE]
    /\ UNCHANGED <<calculation_mode, results, pressed, last, last_mode,
                   previous, edits, ref_vars, wide_vars, frames>>

\* the user picks the other option of the sidebar radio; what the
\* detail-mode widgets hold once they are no longer rendered is the
\* framework's business: kept or back at the default
SetMode(m) ==
    /\ m # calculation_mode
    /\ calculation_mode' = m
    /\ \/ inputs' = inputs
       \/ /\ m = "basic"
          /\ inputs' = DetailWidgetsReset(inputs)
    /\ UNCHANGED <<results, pressed, last, last_mode, previous, edits,
                   ref_vars, wide_vars, frames>>

\* variant: the results record initialised on every run of the script
Rerun_initialising ==
    /\ results' = InitialResults
    /\ UNCHANGED <<calculation_mode, inputs, pressed, last, last_mode,
                   previous, edits, ref_vars, wide_vars, frames>>

\* a rerun of the script with nothing changed and the button not pressed:
\* "results" is in st.session_state, the handler is skipped
Rerun == UNCHANGED vars

SessionNext ==
    \/ \E f \in BaseFields \cup DetailFields \cup InterimFields :
          \E x \in Entered(f) : SetAmount(f, x)
    \/ ToggleInterim
    \/ \E m \in Modes : SetMode(m)
    \/ Rerun
    \/ PressCalc

SessionSpec == SessionInit /\ [][SessionNext]_vars

----------------------------------------------------------------------------
(* What the results tab and the graph tab render from the results record r *)

\* r.get(k, d)
Get(r, k, d) == IF k \in DOMAIN r THEN r[k] ELSE d

\* r.get("distributable_amount", None) is not None: every value stored under
\* the key is an int, so the test asks whether the key is there
HasDistributableAmount(r) == "distributable_amount" \in DOMAIN r

\* tabs[1]: the result box and the breakdown, or else the st.info prompt
results_tab(r) == IF HasDistributableAmount(r) THEN "result" ELSE "prompt"

\* tabs[2]: the graphs, or else the st.info prompt
graph_tab(r) == IF HasDistributableAmount(r) THEN "graphs" ELSE "prompt"

\* int(q): q truncated towards zero
IntTrunc(q) == IF q.whole < 0 /\ q.half # 0 THEN q.whole + 1 ELSE q.whole

\* variant: the whole goodwill shown as its half
graph_goodwill_half_whole(r) == Get(r, "goodwill", 0)

\* the goodwill-impact graph: what it reads from the record r
graph_goodwill_half(r) == IntTrunc(TrueDiv2(Get(r, "goodwill", 0)))

graph_deferred(r) == Get(r, "deferred_assets", 0)

graph_deduction(r) == Get(r, "goodwill_deferred_deduction", 0)

graph_other_capital_surplus(r) == Get(r, "other_capital_surplus", 0)

graph_capital_reserves_total(r) ==
    Get(r, "capital_stock", 0) + Get(r, "capital_reserve", 0)
        + Get(r, "earned_reserve", 0)

graph_goodwill_deferred_total(r) == graph_goodwill_half(r) + graph_deferred(r)

\* the pattern the explanation under the graph is chosen by
graph_pattern(r) ==
    IF graph_goodwill_deferred_total(r) <= graph_capital_reserves_total(r)
    THEN 1
    ELSE IF graph_goodwill_deferred_total(r)
                <= graph_capital_reserves_total(r)
                       + graph_other_capital_surplus(r)
    THEN 2
    ELSE IF graph_goodwill_half(r)
                <= graph_capital_reserves_total(r)
                       + graph_other_capital_surplus(r)
    THEN 3
    ELSE 4

\* the excess shown for patterns 2 and 3
graph_excess_amount(r) ==
    graph_goodwill_deferred_total(r) - graph_capital_reserves_total(r)

\* the deduction shown for pattern 4
graph_final_deduction(r) == graph_other_capital_surplus(r) + graph_deferred(r)

----------------------------------------------------------------------------
(* The calculation statement by statement.  An invocation has a frame: its  *)
(* arguments, the local variables assigned so far, and how far each of the *)
(* nine steps has got.  prog tells whose statements run: "app" for the     *)
(* handler of app.py, "cda" for calculate_distributable_amount of test.py. *)

\* the statements of steps 1 to 9, named after the local they assign
StepStatements ==
    << <<"surplus_amount">>,
       <<"treasury_stock_adjustments">>,
       <<"capital_reserve_adjustments">>,
       <<"dividend_adjustments">>,
       <<"treasury_stock_abs", "additional_treasury_adjustments">>,
       <<"interim_settlement_adjustments_init",
         "interim_settlement_adjustments">>,
       <<"goodwill_adjustment", "deferred_asset_adjustment",
         "goodwill_deferred_adjustment", "capital_reserve_total",
         "goodwill_deferred_deduction">>,
       <<"valuation_adjustments_init", "valuation_adjustments_securities",
         "valuation_adjustments_land">>,
       <<"min_net_assets", "net_assets", "net_assets_adjustment_init",
         "net_assets_adjustment">> >>

Steps == DOMAIN StepStatements

NoLocals == [n \in {} |-> 0]

\* the assignment n = x in the namespace L
Bind(L, n, x) == [m \in DOMAIN L \cup {n} |-> IF m = n THEN x ELSE L[m]]

\* the if / elif / else ladder on the locals assigned before it
goodwill_deferred_deduction_stmt(a, L) ==
    IF L["goodwill_deferred_adjustment"] <= L["capital_reserve_total"]
    THEN 0
    ELSE IF L["goodwill_deferred_adjustment"]
                <= L["capital_reserve_total"] + a.other_capital_surplus
    THEN L["goodwill_deferred_adjustment"] - L["capital_reserve_total"]
    ELSE IF L["goodwill_adjustment"]
                <= L["capital_reserve_total"] + a.other_capital_surplus
    THEN L["goodwill_deferred_adjustment"] - L["capital_reserve_total"]
    ELSE a.other_capital_surplus + L["deferred_asset_adjustment"]

\* variant: net assets put together from the locals of steps 1 and 7, a
\* local not assigned yet counting 0
net_assets_from_locals(a, L) ==
    (IF "capital_reserve_total" \in DOMAIN L
     THEN L["capital_reserve_total"] ELSE 0)
    + (IF "surplus_amount" \in DOMAIN L THEN L["surplus_amount"] ELSE 0)
    + a.treasury_stock

\* net_assets = capital_stock + ... + treasury_stock
net_assets_stmt(a, L) ==
    a.capital_stock + a.capital_reserve + a.earned_reserve
        + a.other_capital_surplus + a.other_retained_earnings
        + a.treasury_stock

\* the namespace after statement stmt of program prog, run with arguments a
\* in namespace L
Exec(stmt, prog, a, L) ==
    CASE stmt = "surplus_amount" ->
            Bind(L, "surplus_amount",
                 a.other_capital_surplus + a.other_retained_earnings)
      [] stmt = "treasury_stock_adjustments" ->
            Bind(L, "treasury_stock_adjustments",
                 a.disposal_consideration - a.disposal_treasury_stock
                    - a.canceled_treasury_stock)
      [] stmt = "capital_reserve_adjustments" ->
            Bind(L, "capital_reserve_adjustments",
                 a.capital_reduction + a.reserve_reduction
                    - a.surplus_to_capital)
      [] stmt = "dividend_adjustments" ->
            Bind(L, "dividend_adjustments",
                 -(a.dividend_amount + a.dividend_reserve))
      [] stmt = "treasury_stock_abs" ->
            Bind(L, "treasury_stock_abs",
                 IF prog = "app"
                 THEN Abs(a.treasury_stock)
                 ELSE Abs(a.treasury_stock) - a.disposal_treasury_stock)
      [] stmt = "additional_treasury_adjustments" ->
            Bind(L, "additional_treasury_adjustments",
                 -a.disposal_consideration)
      [] stmt = "interim_settlement_adjustments_init" ->
            Bind(L, "interim_settlement_adjustments", 0)
      [] stmt = "interim_settlement_adjustments" ->
            IF a.interim_settlement
            THEN Bind(L, "interim_settlement_adjustments",
                      a.interim_profit - a.interim_loss
                        + a.interim_treasury_disposal)
            ELSE L
      [] stmt = "goodwill_adjustment" ->
            Bind(L, "goodwill_adjustment", MathFloor(TrueDiv2(a.goodwill)))
      [] stmt = "deferred_asset_adjustment" ->
            Bind(L, "deferred_asset_adjustment", a.deferred_assets)
      [] stmt = "goodwill_deferred_adjustment" ->
            Bind(L, "goodwill_deferred_adjustment",
                 L["goodwill_adjustment"] + L["deferred_asset_adjustment"])
      [] stmt = "capital_reserve_total" ->
            Bind(L, "capital_reserve_total",
                 a.capital_stock + a.capital_reserve + a.earned_reserve)
      [] stmt = "goodwill_deferred_deduction" ->
            Bind(L, "goodwill_deferred_deduction",
                 goodwill_deferred_deduction_stmt(a, L))
      [] stmt = "valuation_adjustments_init" ->
            Bind(L, "valuation_adjustments", 0)
      [] stmt = "valuation_adjustments_securities" ->
            IF a.securities_valuation < 0
            THEN Bind(L, "valuation_adjustments",
                      L["valuation_adjustments"] - Abs(a.securities_valuation))
            ELSE L
      [] stmt = "valuation_adjustments_land" ->
            IF a.land_revaluation < 0
            THEN Bind(L, "valuation_adjustments",
                      L["valuation_adjustments"] - Abs(a.land_revaluation))
            ELSE L
      [] stmt = "min_net_assets" ->
            Bind(L, "min_net_assets", min_net_assets)
      [] stmt = "net_assets" ->
            Bind(L, "net_assets", net_assets_stmt(a, L))
      [] stmt = "net_assets_adjustment_init" ->
            Bind(L, "net_assets_adjustment", 0)
      [] stmt = "net_assets_adjustment" ->
            IF L["net_assets"] < L["min_net_assets"]
            THEN Bind(L, "net_assets_adjustment",
                      L["min_net_assets"] - L["net_assets"])
            ELSE L

\* step 10: distributable_amount = ... on the locals
Sum(L) ==
    Bind(L, "distributable_amount",
         L["surplus_amount"]
         + L["treasury_stock_adjustments"]
         + L["capital_reserve_adjustments"]
         + L["dividend_adjustments"]
         - L["treasury_stock_abs"]
         + L["additional_treasury_adjustments"]
         + L["interim_settlement_adjustments"]
         - L["goodwill_deferred_deduction"]
         + L["valuation_adjustments"]
         - L["net_assets_adjustment"])

\* the eleven values handed over: the returned dict of test.py, the eleven
\* calculated entries of st.session_state.results of app.py
Handed(L) == [k \in ResultKeys |-> L[k]]

\* variant: one namespace for all invocations, as module-level variables
\* would be
WithLocals_module_level(fs, i, L) ==
    [j \in DOMAIN fs |-> [fs[j] EXCEPT !.locals = L]]

\* the frames once invocation i has namespace L: the locals belong to the
\* call
WithLocals(fs, i, L) == [fs EXCEPT ![i].locals = L]

\* a frame at the entry of the calculation
Entry(prog, order, a) ==
    [prog |-> prog, order |-> order, args |-> a, locals |-> NoLocals,
     pcs |-> [s \in Steps |-> 0], status |-> "running", ret |-> NoLocals]

\* arguments that between them take every branch of the calculation
CalcInputs ==
    { Default,
      [Default EXCEPT !.capital_stock = 10000000,
                      !.other_capital_surplus = 5000000,
                      !.other_retained_earnings = 20000000,
                      !.treasury_stock = -3000000,
                      !.disposal_treasury_stock = 1000000,
                      !.disposal_consideration = 1500000,
                      !.capital_reduction = 7],
      [Default EXCEPT !.capital_stock = 3000000,
                      !.other_retained_earnings = 50,
                      !.dividend_amount = 4,
                      !.interim_settlement = TRUE,
                      !.interim_profit = 5, !.interim_loss = 2,
                      !.interim_treasury_disposal = 1],
      [Default EXCEPT !.capital_stock = 10, !.other_capital_surplus = 8,
                      !.goodwill = 30, !.deferred_assets = 2],
      [Default EXCEPT !.capital_stock = 10, !.other_capital_surplus = 8,
                      !.goodwill = 100, !.deferred_assets = 5],
      [Default EXCEPT !.capital_stock = 4000000,
                      !.securities_valuation = -3,
                      !.land_revaluation = -4] }

StepDone(f, s) == f.pcs[s] = Len(StepStatements[s])

\* invocation i runs the next statement of step s.  In code order a step
\* starts when the steps before it are through; in free order any
\* unfinished step may go on.
Advance(i, s) ==
    /\ i \in DOMAIN frames
    /\ frames[i].status = "running"
    /\ ~StepDone(frames[i], s)
    /\ frames[i].order = "code" =>
            \A t \in Steps : t < s => StepDone(frames[i], t)
    /\ LET f == frames[i]
           stmt == StepStatements[s][f.pcs[s] + 1]
           stepped == [frames EXCEPT ![i].pcs[s] = f.pcs[s] + 1]
       IN  frames' = WithLocals(stepped, i,
                                Exec(stmt, f.prog, f.args, f.locals))
    /\ UNCHANGED <<session_vars, ref_vars, wide_vars>>

\* invocation i, its nine steps through, takes the sum and hands over the
\* eleven values
Return(i) ==
    /\ i \in DOMAIN frames
    /\ frames[i].status = "running"
    /\ \A s \in Steps : StepDone(frames[i], s)
    /\ frames' = [frames EXCEPT ![i].locals = Sum(frames[i].locals),
                                ![i].status = "returned",
                                ![i].ret = Handed(Sum(frames[i].locals))]
    /\ UNCHANGED <<session_vars, ref_vars, wide_vars>>

CalcNext ==
    \/ \E i \in 1 .. 2, s \in Steps : Advance(i, s)
    \/ \E i \in 1 .. 2 : Return(i)

\* one invocation of either program whose nine steps run in any order,
\* their statements interleaved
OrderInit ==
    /\ SessionStart
    /\ RefIdle
    /\ WideIdle
    /\ \E prog \in {"app", "cda"}, a \in CalcInputs :
            frames = <<Entry(prog, "free", a)>>

OrderSpec == OrderInit /\ [][CalcNext]_vars

\* two invocations of calculate_distributable_amount on different
\* arguments, each running its statements in code order, interleaved
ConcInit ==
    /\ SessionStart
    /\ RefIdle
    /\ WideIdle
    /\ \E a \in CalcInputs : \E b \in CalcInputs \ {a} :
            frames = <<Entry("cda", "code", a), Entry("cda", "code", b)>>

ConcSpec == ConcInit /\ [][CalcNext]_vars

----------------------------------------------------------------------------
(* calculate_distributable_amount called with a goodwill of any magnitude: *)
(* the statement goodwill_adjustment = math.floor(goodwill / 2)            *)

WideInit ==
    /\ SessionStart
    /\ RefIdle
    /\ goodwill_arg \in WideGoodwill
    /\ goodwill_half = NotHalved
    /\ frames = <<>>

HalveGoodwill ==
    /\ goodwill_half' = [done |-> TRUE,
                         exp |-> WideFloorHalf(goodwill_arg).exp,
                         off |-> WideFloorHalf(goodwill_arg).off]
    /\ UNCHANGED <<session_vars, ref_vars, goodwill_arg, frames>>

WideNext == HalveGoodwill

WideSpec == WideInit /\ [][WideNext]_vars

----------------------------------------------------------------------------
(* Properties *)

\* the sum of step 10, re-derived from the ten terms of a result record r
SumOfTerms(r) ==
    r.surplus_amount + r.treasury_stock_adjustments
    + r.capital_reserve_adjustments + r.dividend_adjustments
    - r.treasury_stock_abs + r.additional_treasury_adjustments
    + r.interim_settlement_adjustments - r.goodwill_deferred_deduction
    + r.valuation_adjustments - r.net_assets_adjustment

\* C1: the distributable amount that is stored (app.py) or returned
\* (test.py) is the signed sum of the ten breakdown terms stored or returned
\* alongside it.
C1_SumOfBreakdown ==
    /\ pressed => results.distributable_amount = SumOfTerms(results)
    /\ ref_called => ref_ret.distributable_amount = SumOfTerms(ref_ret)

\* C1 witness: a calculation in which eight of the terms are non-zero (the
\* composite case of test.py, in detail mode)
C1_Witness ==
    /\ pressed
    /\ ref_called
    /\ results.surplus_amount = 23000000
    /\ results.treasury_stock_adjustments = -300000
    /\ results.capital_reserve_adjustments = 2500000
    /\ results.dividend_adjustments = -1650000
    /\ results.treasury_stock_abs = 3000000
    /\ results.additional_treasury_adjustments = -1200000
    /\ results.interim_settlement_adjustments = 3300000
    /\ results.valuation_adjustments = -1000000
    /\ results.distributable_amount = 21650000

\* the quantities of the goodwill ladder, from the inputs x
GoodwillHalf(x) == x.goodwill \div 2
GoodwillDeferredTotal(x) == GoodwillHalf(x) + x.deferred_assets
CapitalReserveTotal(x) == x.capital_stock + x.capital_reserve + x.earned_reserve

\* the deduction the ladder prescribes for the inputs x
LadderDeduction(x) ==
    CASE GoodwillDeferredTotal(x) <= CapitalReserveTotal(x) -> 0
      [] /\ GoodwillDeferredTotal(x) > CapitalReserveTotal(x)
         /\ GoodwillDeferredTotal(x)
                <= CapitalReserveTotal(x) + x.other_capital_surplus
         -> GoodwillDeferredTotal(x) - CapitalReserveTotal(x)
      [] /\ GoodwillDeferredTotal(x)
                > CapitalReserveTotal(x) + x.other_capital_surplus
         /\ GoodwillHalf(x) <= CapitalReserveTotal(x) + x.other_capital_surplus
         -> GoodwillDeferredTotal(x) - CapitalReserveTotal(x)
      [] /\ GoodwillDeferredTotal(x)
                > CapitalReserveTotal(x) + x.other_capital_surplus
         /\ GoodwillHalf(x) > CapitalReserveTotal(x) + x.other_capital_surplus
         -> x.other_capital_surplus + x.deferred_assets

\* C2: the goodwill/deferred-asset deduction is the one of the first
\* matching branch: total <= CRT gives 0; total <= CRT + otherCapitalSurplus
\* gives total - CRT; goodwillHalf <= CRT + otherCapitalSurplus gives
\* total - CRT; otherwise otherCapitalSurplus + deferredAssets.
C2_LadderBranches ==
    /\ pressed => results.goodwill_deferred_deduction = LadderDeduction(last)
    /\ ref_called =>
           ref_ret.goodwill_deferred_deduction = LadderDeduction(ref_args)

\* C2 witness: the fourth branch, in the scenario of the specification
\* (half of the goodwill, 25,000,000, exceeds 20,000,000)
C2_Witness ==
    /\ pressed
    /\ last.goodwill = 50000000
    /\ last.deferred_assets = 10000000
    /\ CapitalReserveTotal(last) + last.other_capital_surplus = 20000000
    /\ results.goodwill_deferred_deduction = 13000000

\* C3 as stated: the thresholds are inclusive (deduction 0 at total = CRT,
\* total - CRT at total = CRT + otherCapitalSurplus with a positive
\* otherCapitalSurplus), and the first positive deduction appears at
\* total = CRT + 1.
C3_FirstPositiveAtNext ==
    pressed =>
        /\ GoodwillDeferredTotal(last) = CapitalReserveTotal(last)
               => results.goodwill_deferred_deduction = 0
        /\ ( /\ last.other_capital_surplus > 0
             /\ GoodwillDeferredTotal(last)
                    = CapitalReserveTotal(last) + last.other_capital_surplus )
               => results.goodwill_deferred_deduction
                      = GoodwillDeferredTotal(last) - CapitalReserveTotal(last)
        /\ results.goodwill_deferred_deduction > 0
               => GoodwillDeferredTotal(last) >= CapitalReserveTotal(last) + 1
        /\ GoodwillDeferredTotal(last) = CapitalReserveTotal(last) + 1
               => results.goodwill_deferred_deduction > 0

\* C3 amended: the thresholds are inclusive; no positive deduction occurs at
\* or below total = CRT; at total = CRT + 1 the deduction is 1 when
\* otherCapitalSurplus >= 1 or goodwillHalf <= CRT, and otherwise it is the
\* fourth branch's otherCapitalSurplus + deferredAssets.
C3_InclusiveThresholds ==
    pressed =>
        /\ GoodwillDeferredTotal(last) = CapitalReserveTotal(last)
               => results.goodwill_deferred_deduction = 0
        /\ ( /\ last.other_capital_surplus > 0
             /\ GoodwillDeferredTotal(last)
                    = CapitalReserveTotal(last) + last.other_capital_surplus )
               => results.goodwill_deferred_deduction
                      = GoodwillDeferredTotal(last) - CapitalReserveTotal(last)
        /\ results.goodwill_deferred_deduction > 0
               => GoodwillDeferredTotal(last) >= CapitalReserveTotal(last) + 1
        /\ GoodwillDeferredTotal(last) = CapitalReserveTotal(last) + 1
               => results.goodwill_deferred_deduction
                      = IF \/ last.other_capital_surplus >= 1
                           \/ GoodwillHalf(last) <= CapitalReserveTotal(last)
                        THEN 1
                        ELSE last.other_capital_surplus + last.deferred_assets

\* C3 witness: total = CRT + 1 with no other capital surplus and half of
\* the goodwill above CRT: the fourth branch, and a deduction of 0
C3_Witness ==
    /\ pressed
    /\ CapitalReserveTotal(last) > 0
    /\ GoodwillDeferredTotal(last) = CapitalReserveTotal(last) + 1
    /\ last.other_capital_surplus = 0
    /\ GoodwillHalf(last) > CapitalReserveTotal(last)
    /\ results.goodwill_deferred_deduction = 0

\* the net assets of the inputs x
NetAssets(x) ==
    x.capital_stock + x.capital_reserve + x.earned_reserve
    + x.other_capital_surplus + x.other_retained_earnings + x.treasury_stock

\* C4: netAssetsAdjustment is 3,000,000 - netAssets when netAssets is below
\* 3,000,000 and 0 otherwise: never negative, 0 at exactly 3,000,000 and 1
\* at 2,999,999.
C4_NetAssetsFloor ==
    /\ pressed =>
        /\ results.net_assets_adjustment
               = IF NetAssets(last) < 3000000
                 THEN 3000000 - NetAssets(last) ELSE 0
        /\ results.net_assets_adjustment >= 0
        /\ NetAssets(last) = 3000000 => results.net_assets_adjustment = 0
        /\ NetAssets(last) = 2999999 => results.net_assets_adjustment = 1
    /\ ref_called =>
        /\ ref_ret.net_assets_adjustment
               = IF NetAssets(ref_args) < 3000000
                 THEN 3000000 - NetAssets(ref_args) ELSE 0
        /\ ref_ret.net_assets_adjustment >= 0

\* C4 witness: net assets of 2,999,999, to which treasury stock contributes
C4_Witness ==
    /\ pressed
    /\ last.treasury_stock < 0
    /\ NetAssets(last) = 2999999
    /\ results.net_assets_adjustment = 1

\* C5: in the app's calculation treasuryStockAbs is abs(treasuryStock),
\* whatever the disposed treasury stock is, hence never negative, and
\* additionalTreasuryAdjustments is -disposalConsideration.
C5_TreasuryStockAbs ==
    pressed =>
        /\ results.treasury_stock_abs = Abs(last.treasury_stock)
        /\ results.treasury_stock_abs >= 0
        /\ \A d \in Amount :
               treasury_stock_abs([last EXCEPT !.disposal_treasury_stock = d])
                   = results.treasury_stock_abs
        /\ results.additional_treasury_adjustments
               = -last.disposal_consideration

\* C5 witness: a detail-mode calculation with treasury stock, a disposal
\* of it and a consideration received
C5_Witness ==
    /\ pressed
    /\ last.treasury_stock < 0
    /\ last.disposal_treasury_stock > 0
    /\ last.disposal_consideration > 0
    /\ results.treasury_stock_abs = -last.treasury_stock
    /\ results.additional_treasury_adjustments < 0

\* C6: in calculate_distributable_amount the treasury-stock book value
\* deducted is the one remaining after disposals, abs(treasury_stock) -
\* disposal_treasury_stock, and the distributable amount is computed with
\* that value.
C6_ReferenceTreasuryAfterDisposal ==
    ref_called =>
        /\ ref_ret.treasury_stock_abs
               = Abs(ref_args.treasury_stock) - ref_args.disposal_treasury_stock
        /\ ref_ret.distributable_amount
               = ref_ret.surplus_amount + ref_ret.treasury_stock_adjustments
                 + ref_ret.capital_reserve_adjustments
                 + ref_ret.dividend_adjustments
                 - (Abs(ref_args.treasury_stock)
                        - ref_args.disposal_treasury_stock)
                 + ref_ret.additional_treasury_adjustments
                 + ref_ret.interim_settlement_adjustments
                 - ref_ret.goodwill_deferred_deduction
                 + ref_ret.valuation_adjustments
                 - ref_ret.net_assets_adjustment

\* C6 witness: treasury_stock = -3,000,000 with disposal_treasury_stock =
\* 1,000,000 gives 2,000,000 (the composite case of test.py)
C6_Witness ==
    /\ ref_called
    /\ ref_args.treasury_stock = -3000000
    /\ ref_args.disposal_treasury_stock = 1000000
    /\ ref_ret.treasury_stock_abs = 2000000
    /\ ref_ret.distributable_amount = 22650000

\* C7: calculate_distributable_amount returns, for the same 22 inputs, the
\* same eleven values as the calculation of app.py's calculate button.
C7_ReferenceEqualsApp ==
    (pressed /\ ref_called /\ last = ref_args) =>
        \A k \in ResultKeys : ref_ret[k] = results[k]

\* C8: valuationAdjustments subtracts the absolute value of each negative
\* valuation difference; it is never positive, and inputs that differ only
\* in a non-negative securitiesValuation or landRevaluation have the same
\* distributableAmount.
C8_ValuationAsymmetric ==
    /\ pressed =>
        /\ results.valuation_adjustments
               = - (IF last.securities_valuation < 0
                    THEN Abs(last.securities_valuation) ELSE 0)
                 - (IF last.land_revaluation < 0
                    THEN Abs(last.land_revaluation) ELSE 0)
        /\ results.valuation_adjustments <= 0
        /\ last.securities_valuation >= 0 =>
               \A x \in Amount :
                   distributable_amount(
                       [last EXCEPT !.securities_valuation = x])
                       = results.distributable_amount
        /\ last.land_revaluation >= 0 =>
               \A x \in Amount :
                   distributable_amount([last EXCEPT !.land_revaluation = x])
                       = results.distributable_amount
    /\ ref_called =>
        /\ ref_ret.valuation_adjustments
               = - (IF ref_args.securities_valuation < 0
                    THEN Abs(ref_args.securities_valuation) ELSE 0)
                 - (IF ref_args.land_revaluation < 0
                    THEN Abs(ref_args.land_revaluation) ELSE 0)
        /\ ref_ret.valuation_adjustments <= 0

\* C8 witness: a positive securities valuation difference next to a
\* negative land revaluation difference; only the latter is subtracted
C8_Witness ==
    /\ pressed
    /\ last.securities_valuation > 0
    /\ last.land_revaluation < 0
    /\ results.valuation_adjustments = last.land_revaluation

\* C9: interimSettlementAdjustments is interimProfit - interimLoss +
\* interimTreasuryDisposal when the interimSettlement flag is true and 0
\* when it is false; with the flag false the three interim amounts have no
\* effect on any result term nor on distributableAmount.
C9_InterimOnlyWithFlag ==
    /\ pressed =>
        /\ results.interim_settlement_adjustments
               = IF last.interim_settlement
                 THEN last.interim_profit - last.interim_loss
                          + last.interim_treasury_disposal
                 ELSE 0
        /\ ~last.interim_settlement =>
               \A ip \in Amount, il \in Amount, itd \in Amount :
                   LET stored ==
                         StoredResults(
                           [last EXCEPT !.interim_profit = ip,
                                        !.interim_loss = il,
                                        !.interim_treasury_disposal = itd])
                   IN  \A k \in ResultKeys : stored[k] = results[k]
    /\ ref_called =>
        /\ ref_ret.interim_settlement_adjustments
               = IF ref_args.interim_settlement
                 THEN ref_args.interim_profit - ref_args.interim_loss
                          + ref_args.interim_treasury_disposal
                 ELSE 0
        /\ ~ref_args.interim_settlement =>
               ref_ret = calculate_distributable_amount(
                             [ref_args EXCEPT !.interim_profit = 0,
                                              !.interim_loss = 0,
                                              !.interim_treasury_disposal = 0])

\* C9 witness: the reference calculation called with the flag false and
\* non-zero interim amounts, and the button pressed on the same form
C9_Witness ==
    /\ pressed
    /\ ref_called
    /\ ~ref_args.interim_settlement
    /\ ref_args.interim_profit > 0
    /\ ref_args.interim_treasury_disposal > 0
    /\ ref_ret.interim_settlement_adjustments = 0
    /\ results.interim_settlement_adjustments = 0

\* C10: surplusAmount is otherCapitalSurplus + otherRetainedEarnings, also
\* when a negative otherRetainedEarnings makes it negative; capitalStock,
\* the two reserves and treasuryStock do not enter it.
C10_SurplusAmount ==
    /\ pressed =>
        /\ results.surplus_amount
               = last.other_capital_surplus + last.other_retained_earnings
        /\ \A cs \in Amount, cr \in Amount, er \in Amount, ts \in Signed :
               surplus_amount([last EXCEPT !.capital_stock = cs,
                                           !.capital_reserve = cr,
                                           !.earned_reserve = er,
                                           !.treasury_stock = ts])
                   = results.surplus_amount
    /\ ref_called =>
           ref_ret.surplus_amount
               = ref_args.other_capital_surplus
                 + ref_args.other_retained_earnings

\* C10 witness: a negative surplus from negative other retained earnings,
\* with capital stock present (test_negative_retained_earnings)
C10_Witness ==
    /\ pressed
    /\ last.capital_stock = 10000000
    /\ last.other_retained_earnings = -8000000
    /\ results.surplus_amount = -3000000

\* C11: treasuryStockAdjustments = disposalConsideration -
\* disposalTreasuryStock - canceledTreasuryStock; capitalReserveAdjustments =
\* capitalReduction + reserveReduction - surplusToCapital;
\* dividendAdjustments = -(dividendAmount + dividendReserve).
C11_PostYearEndTerms ==
    /\ pressed =>
        /\ results.treasury_stock_adjustments
               = last.disposal_consideration - last.disposal_treasury_stock
                 - last.canceled_treasury_stock
        /\ results.capital_reserve_adjustments
               = last.capital_reduction + last.reserve_reduction
                 - last.surplus_to_capital
        /\ results.dividend_adjustments
               = -(last.dividend_amount + last.dividend_reserve)
    /\ ref_called =>
        /\ ref_ret.treasury_stock_adjustments
               = ref_args.disposal_consideration
                 - ref_args.disposal_treasury_stock
                 - ref_args.canceled_treasury_stock
        /\ ref_ret.capital_reserve_adjustments
               = ref_args.capital_reduction + ref_args.reserve_reduction
                 - ref_args.surplus_to_capital
        /\ ref_ret.dividend_adjustments
               = -(ref_args.dividend_amount + ref_args.dividend_reserve)

\* C11 witness: the three terms of the composite case of test.py, in the
\* app (detail mode) and in the reference calculation
C11_Witness ==
    /\ pressed
    /\ ref_called
    /\ last.surplus_to_capital = 500000
    /\ results.treasury_stock_adjustments = -300000
    /\ results.capital_reserve_adjustments = 2500000
    /\ results.dividend_adjustments = -1650000
    /\ ref_ret.capital_reserve_adjustments = 2500000

\* the keys of the record the calculate button stores
StoredKeys ==
    ResultKeys \cup
    {"capital_stock", "capital_reserve", "other_capital_surplus",
     "earned_reserve", "other_retained_earnings", "treasury_stock",
     "goodwill", "deferred_assets", "securities_valuation",
     "land_revaluation"}

\* C13: the calculation has no error outcome: in every state the button can
\* be pressed and the reference called, and what they produce is a complete
\* record of integers; a negative distributableAmount is such a value.
C13_NoErrorOutcome ==
    /\ ENABLED PressCalc
    /\ ENABLED CallReference
    /\ pressed =>
        /\ DOMAIN results = StoredKeys
        /\ \A k \in StoredKeys : results[k] \in Int
    /\ ref_called =>
        /\ DOMAIN ref_ret = ResultKeys
        /\ \A k \in ResultKeys : ref_ret[k] \in Int

\* C13 witness: a complete record with a negative distributable amount
\* that is not due to the net-assets floor
C13_Witness ==
    /\ pressed
    /\ ref_called
    /\ DOMAIN results = StoredKeys
    /\ results.net_assets_adjustment = 0
    /\ results.distributable_amount < 0
    /\ ref_ret.distributable_amount < 0

\* C14: with every input at its default, netAssetsAdjustment is 3,000,000,
\* every other term is 0 and distributableAmount is -3,000,000.
C14_AllDefaults ==
    /\ (pressed /\ last = Default) =>
           \A k \in ResultKeys :
               results[k] = CASE k = "net_assets_adjustment" -> 3000000
                              [] k = "distributable_amount" -> -3000000
                              [] OTHER -> 0
    /\ (ref_called /\ ref_args = Default) =>
           \A k \in ResultKeys :
               ref_ret[k] = CASE k = "net_assets_adjustment" -> 3000000
                              [] k = "distributable_amount" -> -3000000
                              [] OTHER -> 0

\* C14 witness: the button pressed and the reference called on the
\* untouched form
C14_Witness ==
    /\ pressed
    /\ ref_called
    /\ inputs = Default
    /\ last = Default
    /\ ref_args = Default
    /\ results.distributable_amount = -3000000
    /\ ref_ret.distributable_amount = -3000000

\* the premise of C15 on inputs x: no change after the fiscal year end, no
\* interim settlement, no goodwill nor deferred assets, no negative
\* valuation difference, net assets at or above the floor
PlainCase(x) ==
    /\ x.disposal_treasury_stock = 0
    /\ x.disposal_consideration = 0
    /\ x.canceled_treasury_stock = 0
    /\ x.capital_reduction = 0
    /\ x.reserve_reduction = 0
    /\ x.surplus_to_capital = 0
    /\ x.dividend_amount = 0
    /\ x.dividend_reserve = 0
    /\ ~x.interim_settlement
    /\ x.goodwill = 0
    /\ x.deferred_assets = 0
    /\ x.securities_valuation >= 0
    /\ x.land_revaluation >= 0
    /\ NetAssets(x) >= 3000000

\* C15: in the plain case distributableAmount is otherCapitalSurplus +
\* otherRetainedEarnings - abs(treasuryStock).
C15_PlainCase ==
    /\ (pressed /\ PlainCase(last)) =>
           results.distributable_amount
               = last.other_capital_surplus + last.other_retained_earnings
                 - Abs(last.treasury_stock)
    /\ (ref_called /\ PlainCase(ref_args)) =>
           ref_ret.distributable_amount
               = ref_args.other_capital_surplus
                 + ref_args.other_retained_earnings
                 - Abs(ref_args.treasury_stock)

\* C15 witness: the basic scenario, 23,000,000 - 2,000,000 = 21,000,000
C15_Witness ==
    /\ pressed
    /\ PlainCase(last)
    /\ last.treasury_stock = -2000000
    /\ results.surplus_amount = 23000000
    /\ results.distributable_amount = 21000000

\* C15, second case: capitalStock = 3,000,000 as the only non-zero input
\* gives exactly 0, and a positive valuation difference is part of the
\* plain case
C15_Reach ==
    /\ pressed
    /\ PlainCase(last)
    /\ last.securities_valuation > 0
    /\ last.capital_stock = 3000000
    /\ results.distributable_amount = last.other_retained_earnings

\* C18: goodwillHalf is the integer floor of goodwill / 2 for every
\* non-negative integer goodwill: 2 * goodwillHalf <= goodwill <=
\* 2 * goodwillHalf + 1.  (With goodwill = 2^e + r and goodwillHalf =
\* 2^(e-1) + h this reads 2h <= r <= 2h + 1.)
C18_FloorOfHalf ==
    goodwill_half.done =>
        /\ goodwill_half.exp = goodwill_arg.exp - 1
        /\ 2 * goodwill_half.off <= goodwill_arg.off
        /\ goodwill_arg.off <= 2 * goodwill_half.off + 1

\* C18 within the form's amounts: the same for the goodwill of a
\* calculation
C18_FloorOfHalfInForm ==
    pressed =>
        /\ goodwill_adjustment(last) \in Int
        /\ 2 * goodwill_adjustment(last) <= last.goodwill
        /\ last.goodwill <= 2 * goodwill_adjustment(last) + 1

----------------------------------------------------------------------------
(* Claims about a session *)

\* the value app.py computes for result key k from the script's variables v
AppTerm(k, v) ==
    CASE k = "surplus_amount" -> surplus_amount(v)
      [] k = "treasury_stock_adjustments" -> treasury_stock_adjustments(v)
      [] k = "capital_reserve_adjustments" -> capital_reserve_adjustments(v)
      [] k = "dividend_adjustments" -> dividend_adjustments(v)
      [] k = "treasury_stock_abs" -> treasury_stock_abs(v)
      [] k = "additional_treasury_adjustments" ->
            additional_treasury_adjustments(v)
      [] k = "interim_settlement_adjustments" ->
            interim_settlement_adjustments(v)
      [] k = "goodwill_deferred_deduction" -> goodwill_deferred_deduction(v)
      [] k = "valuation_adjustments" -> valuation_adjustments(v)
      [] k = "net_assets_adjustment" -> net_assets_adjustment(v)
      [] k = "distributable_amount" -> distributable_amount(v)

\* C12: the calculation is deterministic and history-independent: whatever
\* was calculated before in the session, the eleven values held after a
\* press are those of the inputs of that press alone, and pressing again on
\* identical inputs yields the identical record.
C12_HistoryIndependent ==
    /\ [](pressed => \A k \in ResultKeys : results[k] = AppTerm(k, last))
    /\ [][(pressed /\ PressCalc /\ last' = last) => results' = results]_vars

\* C12 witness: a calculation made after an earlier one on other inputs
\* that gave another total
C12_Witness ==
    /\ pressed
    /\ DOMAIN previous = StoredKeys
    /\ previous.distributable_amount # results.distributable_amount
    /\ previous.surplus_amount # results.surplus_amount
    /\ results.distributable_amount = distributable_amount(last)

\* C19: the session holds the most recent result: after any edits, mode
\* switches and presses, results holds the eleven values computed from the
\* inputs in effect at the most recent press and the ten base inputs of
\* that press, and nothing else; a step other than a press leaves results
\* unchanged.
C19_SessionHoldsLatest ==
    /\ [](pressed =>
            /\ DOMAIN results = StoredKeys
            /\ \A k \in ResultKeys : results[k] = AppTerm(k, last)
            /\ \A f \in BaseFields : results[f] = last[f])
    /\ [][PressCalc \/ results' = results]_vars

\* C19 witness: the first press has replaced the initial record, none of
\* whose own keys is left, and the form has been edited since
C19_Witness ==
    /\ pressed
    /\ previous = InitialResults
    /\ "retained_earnings" \notin DOMAIN results
    /\ "adjustments" \notin DOMAIN results
    /\ results.goodwill = last.goodwill
    /\ inputs.goodwill # last.goodwill
    /\ calculation_mode # last_mode

\* C20: a calculation made in basic mode takes every post-fiscal-year-end
\* field as 0 and the checkbox as unchecked, so its five post-year-end terms
\* are 0 whatever the detail-mode widgets were given earlier; one made in
\* detail mode with the checkbox unchecked takes the three interim amounts
\* as 0.
C20_BasicModeZeroes ==
    pressed =>
        /\ last_mode = "basic" =>
            /\ \A f \in DetailFields \cup InterimFields : last[f] = 0
            /\ last.interim_settlement = FALSE
            /\ results.treasury_stock_adjustments = 0
            /\ results.capital_reserve_adjustments = 0
            /\ results.dividend_adjustments = 0
            /\ results.additional_treasury_adjustments = 0
            /\ results.interim_settlement_adjustments = 0
        /\ (last_mode = "detail" /\ ~last.interim_settlement) =>
            /\ \A f \in InterimFields : last[f] = 0
            /\ results.interim_settlement_adjustments = 0

\* C20 witness: a basic-mode calculation while the detail-mode widgets
\* still hold a dividend and a checked interim-settlement box
C20_Witness ==
    /\ pressed
    /\ last_mode = "basic"
    /\ calculation_mode = "basic"
    /\ inputs.dividend_amount = 1
    /\ inputs.interim_settlement
    /\ last = ScriptVars("basic", inputs)
    /\ results.dividend_adjustments = 0

\* C20, second case reached: a detail-mode calculation with the checkbox
\* unchecked while an interim amount widget still holds a value
C20_UncheckedReached ==
    /\ pressed
    /\ last_mode = "detail"
    /\ ~inputs.interim_settlement
    /\ inputs.interim_profit = 1
    /\ last = ScriptVars("detail", inputs)
    /\ results.interim_settlement_adjustments = 0

----------------------------------------------------------------------------
(* Claims about the order of the steps and about concurrent invocations *)

\* what the program of frame f computes on f.args in the order of the code
Sequential(f) ==
    IF f.prog = "app"
    THEN [k \in ResultKeys |-> AppTerm(k, f.args)]
    ELSE calculate_distributable_amount(f.args)

\* C16: the derivations of steps 1 to 9 read only the inputs and never one
\* another's results: whatever the order of the steps and the interleaving
\* of their statements, every step that is through has left the value the
\* code's sequential order gives, and the ten terms and the total handed
\* over are those of the sequential order.
C16_AnyOrder ==
    \A i \in DOMAIN frames :
        LET f == frames[i] IN
        /\ \A s \in Steps :
              StepDone(f, s) =>
                 \A k \in ResultKeys :
                    (\E n \in DOMAIN StepStatements[s] :
                        StepStatements[s][n] = k)
                        => f.locals[k] = Sequential(f)[k]
        /\ f.status = "returned" => f.ret = Sequential(f)

\* C16 witness: an invocation out of the code's order: the net-assets floor
\* and the ladder are through, the valuation step is half way and the first
\* step has not begun
C16_Witness ==
    /\ Len(frames) = 1
    /\ frames[1].order = "free"
    /\ StepDone(frames[1], 9)
    /\ StepDone(frames[1], 7)
    /\ frames[1].pcs[8] = 1
    /\ frames[1].pcs[1] = 0
    /\ frames[1].locals["net_assets_adjustment"] > 0
    /\ frames[1].locals["goodwill_deferred_deduction"] > 0

\* C17: two invocations running concurrently on different inputs, their
\* statements interleaved, each hand over what a solitary invocation on its
\* own input hands over; a statement of one changes nothing of the other.
C17_Concurrent ==
    /\ [](\A i \in DOMAIN frames :
            frames[i].status = "returned"
                => frames[i].ret = Sequential(frames[i]))
    /\ [][\E i \in DOMAIN frames :
            \A j \in DOMAIN frames \ {i} : frames'[j] = frames[j]]_vars

\* C17 witness: both invocations have returned, with different totals
C17_Witness ==
    /\ Len(frames) = 2
    /\ frames[1].status = "returned"
    /\ frames[2].status = "returned"
    /\ frames[1].args # frames[2].args
    /\ frames[1].ret.distributable_amount # frames[2].ret.distributable_amount
    /\ frames[1].ret.valuation_adjustments # frames[2].ret.valuation_adjustments

----------------------------------------------------------------------------
(* Claims about what the tabs show *)

\* C21: the results tab and the graph tab show the prompt until the
\* calculate button has been pressed for the first time; a distributable
\* amount and its breakdown are displayed only after a calculation.
C21_PromptUntilFirstPress ==
    /\ ~pressed =>
        /\ results_tab(results) = "prompt"
        /\ graph_tab(results) = "prompt"
    /\ pressed =>
        /\ results_tab(results) = "result"
        /\ graph_tab(results) = "graphs"

\* C21, what holds instead: both tabs render the record in every state of a
\* session, the initial record included (it has distributable_amount 0)
C21_TabsAlwaysRender ==
    /\ results_tab(results) = "result"
    /\ graph_tab(results) = "graphs"
    /\ ~pressed => Get(results, "distributable_amount", 0) = 0

----------------------------------------------------------------------------
(* Further claims about the goodwill ladder *)

Max(x, y) == IF x >= y THEN x ELSE y
Min(x, y) == IF x <= y THEN x ELSE y

\* the premise of C22 to C24 on inputs x
LadderPremise(x) ==
    x.goodwill >= 0 /\ x.deferred_assets >= 0 /\ x.other_capital_surplus >= 0

\* max(0, min(goodwillDeferredTotal - capitalReserveTotal,
\*            otherCapitalSurplus + deferredAssets))
CappedExcess(x) ==
    Max(0, Min(GoodwillDeferredTotal(x) - CapitalReserveTotal(x),
               x.other_capital_surplus + x.deferred_assets))

\* C22: with goodwill, deferredAssets and otherCapitalSurplus non-negative,
\* 0 <= goodwillDeferredDeduction <= otherCapitalSurplus + deferredAssets
\* and the deduction is max(0, min(total - CRT, otherCapitalSurplus +
\* deferredAssets)).
C22_DeductionBounds ==
    /\ (pressed /\ LadderPremise(last)) =>
        /\ 0 <= results.goodwill_deferred_deduction
        /\ results.goodwill_deferred_deduction
               <= last.other_capital_surplus + last.deferred_assets
        /\ results.goodwill_deferred_deduction = CappedExcess(last)
    /\ (ref_called /\ LadderPremise(ref_args)) =>
        /\ 0 <= ref_ret.goodwill_deferred_deduction
        /\ ref_ret.goodwill_deferred_deduction
               <= ref_args.other_capital_surplus + ref_args.deferred_assets
        /\ ref_ret.goodwill_deferred_deduction = CappedExcess(ref_args)

\* C22 witness: the cap is what decides: the excess is larger than the
\* positive otherCapitalSurplus + deferredAssets that is deducted
C22_Witness ==
    /\ pressed
    /\ ref_called
    /\ ref_args = last
    /\ last.other_capital_surplus > 0
    /\ last.deferred_assets > 0
    /\ GoodwillDeferredTotal(last) - CapitalReserveTotal(last)
           > last.other_capital_surplus + last.deferred_assets
    /\ results.goodwill_deferred_deduction
           = last.other_capital_surplus + last.deferred_assets
    /\ ref_ret.goodwill_deferred_deduction
           = results.goodwill_deferred_deduction

\* the ladder with branches 2 and 3 merged
MergedLadder(x) ==
    IF GoodwillDeferredTotal(x) <= CapitalReserveTotal(x)
    THEN 0
    ELSE IF GoodwillHalf(x) <= CapitalReserveTotal(x) + x.other_capital_surplus
    THEN GoodwillDeferredTotal(x) - CapitalReserveTotal(x)
    ELSE x.other_capital_surplus + x.deferred_assets

\* C23: with deferredAssets non-negative the four-branch ladder of the code
\* gives the deduction of the three-branch ladder "total <= CRT: 0;
\* goodwillHalf <= CRT + otherCapitalSurplus: total - CRT; otherwise
\* otherCapitalSurplus + deferredAssets", the condition of branch 2
\* implying that of branch 3.
C23_MergedBranches ==
    /\ (pressed /\ last.deferred_assets >= 0) =>
        /\ results.goodwill_deferred_deduction = MergedLadder(last)
        /\ GoodwillDeferredTotal(last)
                <= CapitalReserveTotal(last) + last.other_capital_surplus
             => GoodwillHalf(last)
                    <= CapitalReserveTotal(last) + last.other_capital_surplus
    /\ (ref_called /\ ref_args.deferred_assets >= 0) =>
        ref_ret.goodwill_deferred_deduction = MergedLadder(ref_args)

\* C23 witness: the third branch proper (the total beyond CRT +
\* otherCapitalSurplus, half the goodwill within it), with deferred assets
C23_Witness ==
    /\ pressed
    /\ ref_called
    /\ ref_args = last
    /\ last.deferred_assets > 0
    /\ CapitalReserveTotal(last) > 0
    /\ GoodwillDeferredTotal(last)
           > CapitalReserveTotal(last) + last.other_capital_surplus
    /\ GoodwillHalf(last)
           <= CapitalReserveTotal(last) + last.other_capital_surplus
    /\ results.goodwill_deferred_deduction
           = GoodwillDeferredTotal(last) - CapitalReserveTotal(last)

\* the inputs x with goodwill raised by d
MoreGoodwill(x, d) == [x EXCEPT !.goodwill = x.goodwill + d]

\* C24: the deduction has no jump: everything else fixed, with
\* otherCapitalSurplus and deferredAssets non-negative, raising goodwill so
\* that goodwillHalf grows by 1 never lowers goodwillDeferredDeduction and
\* raises it by at most 1, across the branch transitions too; hence
\* distributableAmount is non-increasing in goodwill.
C24_NoJump ==
    /\ (pressed /\ LadderPremise(last)) =>
        \A d \in 1 .. 2 :
            LET more == StoredResults(MoreGoodwill(last, d))
                step == more.goodwill_deferred_deduction
                            - results.goodwill_deferred_deduction
            IN  /\ GoodwillHalf(MoreGoodwill(last, d)) = GoodwillHalf(last) + 1
                    => step \in {0, 1}
                /\ step >= 0
                /\ more.distributable_amount <= results.distributable_amount
    /\ (ref_called /\ LadderPremise(ref_args)) =>
        \A d \in 1 .. 2 :
            LET more == calculate_distributable_amount(
                            MoreGoodwill(ref_args, d))
                step == more.goodwill_deferred_deduction
                            - ref_ret.goodwill_deferred_deduction
            IN  /\ GoodwillHalf(MoreGoodwill(ref_args, d))
                        = GoodwillHalf(ref_args) + 1
                    => step \in {0, 1}
                /\ step >= 0
                /\ more.distributable_amount <= ref_ret.distributable_amount

\* C24 witness: the last state of the third branch before the fourth: half
\* the goodwill equals CRT + otherCapitalSurplus, the deduction has reached
\* the cap and stays there when goodwill is raised
C24_Witness ==
    /\ pressed
    /\ ref_called
    /\ ref_args = last
    /\ last.deferred_assets > 0
    /\ CapitalReserveTotal(last) > 0
    /\ GoodwillHalf(last) = CapitalReserveTotal(last) + last.other_capital_surplus
    /\ results.goodwill_deferred_deduction
           = last.other_capital_surplus + last.deferred_assets
    /\ StoredResults(MoreGoodwill(last, 2)).goodwill_deferred_deduction
           = results.goodwill_deferred_deduction
    /\ GoodwillHalf(MoreGoodwill(last, 2))
           > CapitalReserveTotal(last) + last.other_capital_surplus

\* C24, the rising part reached: within the second branch one more unit of
\* half the goodwill is one more unit deducted and one less distributable
C24_RiseReached ==
    /\ pressed
    /\ results.goodwill_deferred_deduction > 0
    /\ StoredResults(MoreGoodwill(last, 2)).goodwill_deferred_deduction
           = results.goodwill_deferred_deduction + 1
    /\ StoredResults(MoreGoodwill(last, 2)).distributable_amount
           = results.distributable_amount - 1

----------------------------------------------------------------------------
(* Claims about the treasury-stock inputs *)

\* C25: distributableAmount does not depend on disposalConsideration: two
\* inputs that differ only in it give the same total, in the app and in the
\* reference, the consideration being added once through
\* treasuryStockAdjustments and subtracted once through
\* additionalTreasuryAdjustments; in the app each unit of
\* disposalTreasuryStock or of canceledTreasuryStock lowers the total by
\* exactly one unit.
C25_DisposalConsideration ==
    /\ pressed =>
        /\ \A dc \in Amount :
              LET other == StoredResults(
                               [last EXCEPT !.disposal_consideration = dc])
              IN  /\ other.distributable_amount = results.distributable_amount
                  /\ other.treasury_stock_adjustments
                         + other.additional_treasury_adjustments
                       = results.treasury_stock_adjustments
                             + results.additional_treasury_adjustments
        /\ StoredResults(
               [last EXCEPT !.disposal_treasury_stock = @ + 1]
           ).distributable_amount = results.distributable_amount - 1
        /\ StoredResults(
               [last EXCEPT !.canceled_treasury_stock = @ + 1]
           ).distributable_amount = results.distributable_amount - 1
    /\ ref_called =>
        \A dc \in Amount :
            calculate_distributable_amount(
                [ref_args EXCEPT !.disposal_consideration = dc]
            ).distributable_amount = ref_ret.distributable_amount

\* C25 witness: a calculation with a disposal consideration, a disposal and
\* a cancellation, whose total is that of the same input without the
\* consideration
C25_Witness ==
    /\ pressed
    /\ ref_called
    /\ ref_args.disposal_consideration > 0
    /\ last.disposal_consideration > 0
    /\ last.disposal_treasury_stock > 0
    /\ last.canceled_treasury_stock > 0
    /\ results.treasury_stock_adjustments # 0
    /\ results.additional_treasury_adjustments < 0
    /\ results.distributable_amount
           = StoredResults(
                 [last EXCEPT !.disposal_consideration = 0]
             ).distributable_amount

----------------------------------------------------------------------------
(* Claims about the goodwill-impact graph *)

\* the branch of the handler's ladder taken on the script's variables v
LadderBranch(v) ==
    IF goodwill_deferred_adjustment(v) <= capital_reserve_total(v)
    THEN 1
    ELSE IF goodwill_deferred_adjustment(v)
                <= capital_reserve_total(v) + v.other_capital_surplus
    THEN 2
    ELSE IF goodwill_adjustment(v)
                <= capital_reserve_total(v) + v.other_capital_surplus
    THEN 3
    ELSE 4

\* C26: in every state of a session (before the first calculation, right
\* after one, after edits without recalculating) the pattern the
\* goodwill-impact graph recomputes from the stored inputs is the branch
\* that produced the stored goodwill_deferred_deduction: pattern 1 goes
\* with a stored deduction of 0, patterns 2 and 3 with the displayed excess,
\* pattern 4 with the displayed otherCapitalSurplus + deferredAssets.
C26_GraphPattern ==
    /\ pressed => graph_pattern(results) = LadderBranch(last)
    /\ graph_pattern(results) = 1 => graph_deduction(results) = 0
    /\ graph_pattern(results) \in {2, 3}
           => graph_deduction(results) = graph_excess_amount(results)
    /\ graph_pattern(results) = 4
           => graph_deduction(results) = graph_final_deduction(results)

\* C26 witness: pattern 3 with a positive deduction stored, the form
\* edited since the calculation
C26_Witness ==
    /\ pressed
    /\ graph_pattern(results) = 3
    /\ graph_deduction(results) > 0
    /\ inputs.deferred_assets # results.deferred_assets

\* C26, before the first calculation: pattern 1 on the initial record
C26_InitialReached ==
    /\ ~pressed
    /\ edits > 0
    /\ inputs.goodwill > 0
    /\ graph_pattern(results) = 1
    /\ graph_deduction(results) = 0

\* C26, the other patterns reached after a calculation
C26_Pattern2Reached ==
    pressed /\ graph_pattern(results) = 2 /\ graph_deduction(results) > 0

C26_Pattern4Reached ==
    pressed /\ graph_pattern(results) = 4 /\ results.goodwill > 0

====
